---- MODULE Spec2Model ----
(***************************************************************************)
(* Model of app/main.py: the identity reporter / heartbeat loop.           *)
(*                                                                         *)
(* The script is modelled statement by statement.  Two independent runs    *)
(* of the script (Runs) execute side by side so that properties relating   *)
(* two runs (determinism of the output in the UID read) can be stated as   *)
(* ordinary invariants.  Each run has its own host, its own program        *)
(* counter and its own record of the system-level operations it performed  *)
(* (os.getuid, print, time.sleep), in order.                               *)
(***************************************************************************)
EXTENDS Integers, Sequences, FiniteSets, TLC

VARIABLES pc, uid, hostUid, trace, exitCode

vars == <<pc, uid, hostUid, trace, exitCode>>

(* ------------------------------ bounds -------------------------------- *)

\* Number of heartbeat lines a run may emit before the model stops it.
MaxBeats == 3

\* How many of the sample user identifiers the host may report.
NumUids == 2

(* --------------------------- the environment -------------------------- *)

\* The two runs of the script that are observed side by side.
Runs == {"a", "b"}

\* User identifiers a host may report: root, an ordinary user, nobody,
\* the largest value a 32-bit signed integer holds, a two-digit value.
UidSamples == <<0, 1000, 65534, 2147483647, 10>>

UIDs == {UidSamples[i] : i \in 1..NumUids}

\* Signals by which the host may stop the process: SIGINT, SIGTERM.
Signals == {2, 15}

\* Value of the module-level name uid before line 4 has bound it.
NoUid == -1

\* Exit status of a process that has not exited.
NoExit == -1

\* Exit status of the interpreter after an uncaught exception.
UncaughtExceptionExit == 1

\* Argument of time.sleep on line 10.
SleepSecs == 10

(* ------------------------- string formatting -------------------------- *)

Digit == <<"0", "1", "2", "3", "4", "5", "6", "7", "8", "9">>

HexDigit == <<"0", "1", "2", "3", "4", "5", "6", "7", "8", "9",
              "a", "b", "c", "d", "e", "f">>

\* Mutant of Decimal: the identifier formatted as {uid:x}.
RECURSIVE DecimalAsHex(_)
DecimalAsHex(n) ==
    IF n < 16 THEN HexDigit[n + 1]
    ELSE DecimalAsHex(n \div 16) \o HexDigit[(n % 16) + 1]

\* str(int) for a non-negative int, as the f-string replacement field
\* {uid} produces it: decimal digits, most significant first, no padding.
RECURSIVE Decimal(_)
Decimal(n) ==
    IF n < 10 THEN Digit[n + 1]
    ELSE Decimal(n \div 10) \o Digit[(n % 10) + 1]

HelloLine(u) ==
    "Hello from Universal App! My container is running as UID: " \o Decimal(u)

HintLine == "I will print this message every 10 seconds. Use Ctrl+C to exit."

HeartbeatLine(u) == "Still running as UID: " \o Decimal(u) \o "..."

(* ----------------------- operations on the host ----------------------- *)

GetuidEvent(u) == [op |-> "getuid", ret |-> u]

PrintEvent(s) == [op |-> "print", text |-> s]

SleepEvent(n) == [op |-> "sleep", secs |-> n]

\* The lines run r has written to standard output, in order.
Stdout(r) ==
    LET prints == SelectSeq(trace[r], LAMBDA e : e.op = "print")
    IN  [i \in 1..Len(prints) |-> prints[i].text]

\* s begins with p.
HasPrefix(s, p) == Len(s) >= Len(p) /\ SubSeq(s, 1, Len(p)) = p

\* s ends with p.
HasSuffix(s, p) ==
    Len(s) >= Len(p) /\ SubSeq(s, Len(s) - Len(p) + 1, Len(s)) = p

\* e is a print of a line of the form written by line 9.
IsHeartbeat(e) ==
    /\ e.op = "print"
    /\ HasPrefix(e.text, "Still running as UID: ")
    /\ HasSuffix(e.text, "...")

\* Number of heartbeat lines run r has written.
Beats(r) == Cardinality({i \in 1..Len(trace[r]) : IsHeartbeat(trace[r][i])})

Starting == {"getuid", "hello", "hint"}

Running == {"beat", "sleep", "sleeping"}

Live(r) == pc[r] \in Starting \cup Running

(* ------------------------------- Init --------------------------------- *)

Init ==
    /\ pc = [r \in Runs |-> "getuid"]
    /\ uid = [r \in Runs |-> NoUid]
    /\ hostUid \in [Runs -> UIDs]
    /\ trace = [r \in Runs |-> <<>>]
    /\ exitCode = [r \in Runs |-> NoExit]

(* ------------------------- the script's steps ------------------------- *)

\* line 4: uid = os.getuid()
GetUid(r) ==
    /\ pc[r] = "getuid"
    /\ uid' = [uid EXCEPT ![r] = hostUid[r]]
    /\ trace' = [trace EXCEPT ![r] = Append(@, GetuidEvent(hostUid[r]))]
    /\ pc' = [pc EXCEPT ![r] = "hello"]
    /\ UNCHANGED <<hostUid, exitCode>>

\* Mutant of GetUidFail: the exception is caught and the run goes on with
\* a default identifier.
GetUidFailDefault(r) ==
    /\ pc[r] = "getuid"
    /\ uid' = [uid EXCEPT ![r] = 0]
    /\ pc' = [pc EXCEPT ![r] = "hello"]
    /\ UNCHANGED <<hostUid, trace, exitCode>>

\* line 4 on a platform without os.getuid: the call raises, nothing
\* catches it, the interpreter exits with a traceback on standard error.
GetUidFail(r) ==
    /\ pc[r] = "getuid"
    /\ pc' = [pc EXCEPT ![r] = "failed"]
    /\ exitCode' = [exitCode EXCEPT ![r] = UncaughtExceptionExit]
    /\ UNCHANGED <<uid, hostUid, trace>>

\* Mutant of PrintHello: the Hello line asks the host again instead of
\* using the variable.
PrintHelloRequery(r) ==
    /\ pc[r] = "hello"
    /\ trace' = [trace EXCEPT
                    ![r] = Append(@, PrintEvent(HelloLine(hostUid[r])))]
    /\ pc' = [pc EXCEPT ![r] = "hint"]
    /\ UNCHANGED <<uid, hostUid, exitCode>>

\* line 5
PrintHello(r) ==
    /\ pc[r] = "hello"
    /\ trace' = [trace EXCEPT ![r] = Append(@, PrintEvent(HelloLine(uid[r])))]
    /\ pc' = [pc EXCEPT ![r] = "hint"]
    /\ UNCHANGED <<uid, hostUid, exitCode>>

\* Mutant of PrintHint: the loop body is written sleep first, print second.
PrintHintThenSleep(r) ==
    /\ pc[r] = "hint"
    /\ trace' = [trace EXCEPT ![r] = Append(@, PrintEvent(HintLine))]
    /\ pc' = [pc EXCEPT ![r] = "sleep"]
    /\ UNCHANGED <<uid, hostUid, exitCode>>

\* line 6, falling through to the loop head on line 8
PrintHint(r) ==
    /\ pc[r] = "hint"
    /\ trace' = [trace EXCEPT ![r] = Append(@, PrintEvent(HintLine))]
    /\ pc' = [pc EXCEPT ![r] = "beat"]
    /\ UNCHANGED <<uid, hostUid, exitCode>>

\* Mutant of Heartbeat: the identifier is asked of the host again in the
\* loop, print(f"...{os.getuid()}...").
HeartbeatRequery(r) ==
    /\ pc[r] = "beat"
    /\ Beats(r) < MaxBeats
    /\ trace' = [trace EXCEPT
                    ![r] = Append(@, PrintEvent(HeartbeatLine(hostUid[r])))]
    /\ pc' = [pc EXCEPT ![r] = "sleep"]
    /\ UNCHANGED <<uid, hostUid, exitCode>>

\* line 9
Heartbeat(r) ==
    /\ pc[r] = "beat"
    /\ Beats(r) < MaxBeats
    /\ trace' = [trace EXCEPT ![r] = Append(@, PrintEvent(HeartbeatLine(uid[r])))]
    /\ pc' = [pc EXCEPT ![r] = "sleep"]
    /\ UNCHANGED <<uid, hostUid, exitCode>>

\* Mutant of SleepStart: time.sleep(1).
SleepStartShort(r) ==
    /\ pc[r] = "sleep"
    /\ trace' = [trace EXCEPT ![r] = Append(@, SleepEvent(1))]
    /\ pc' = [pc EXCEPT ![r] = "sleeping"]
    /\ UNCHANGED <<uid, hostUid, exitCode>>

\* line 10: the call to time.sleep is made and the thread is suspended
SleepStart(r) ==
    /\ pc[r] = "sleep"
    /\ trace' = [trace EXCEPT ![r] = Append(@, SleepEvent(SleepSecs))]
    /\ pc' = [pc EXCEPT ![r] = "sleeping"]
    /\ UNCHANGED <<uid, hostUid, exitCode>>

\* Mutant of SleepEnd: the loop is left after the sleep (a break, or a
\* loop condition that becomes false) and the script ends normally.
SleepEndBreak(r) ==
    /\ pc[r] = "sleeping"
    /\ pc' = [pc EXCEPT ![r] = "exited"]
    /\ exitCode' = [exitCode EXCEPT ![r] = 0]
    /\ UNCHANGED <<uid, hostUid, trace>>

\* Mutant of SleepEnd: the loop goes back to the Hello line.
SleepEndRestart(r) ==
    /\ pc[r] = "sleeping"
    /\ pc' = [pc EXCEPT ![r] = "hello"]
    /\ UNCHANGED <<uid, hostUid, trace, exitCode>>

\* Mutant of SleepEnd: the loop begins one statement early, so the usage
\* hint is printed on every iteration.
SleepEndToHint(r) ==
    /\ pc[r] = "sleeping"
    /\ pc' = [pc EXCEPT ![r] = "hint"]
    /\ UNCHANGED <<uid, hostUid, trace, exitCode>>

\* line 10 returns; line 8: while True
SleepEnd(r) ==
    /\ pc[r] = "sleeping"
    /\ pc' = [pc EXCEPT ![r] = "beat"]
    /\ UNCHANGED <<uid, hostUid, trace, exitCode>>

Step(r) ==
    \/ GetUid(r)
    \/ GetUidFail(r)
    \/ PrintHello(r)
    \/ PrintHint(r)
    \/ Heartbeat(r)
    \/ SleepStart(r)
    \/ SleepEnd(r)

(* ------------------------- the host's actions ------------------------- *)

\* Mutant of Kill: the script catches the interrupt and prints a farewell
\* line before it ends.
KillWithFarewell(r, sig) ==
    /\ Live(r)
    /\ pc' = [pc EXCEPT ![r] = "killed"]
    /\ exitCode' = [exitCode EXCEPT ![r] = 128 + sig]
    /\ trace' = [trace EXCEPT ![r] = Append(@, PrintEvent("Exiting."))]
    /\ UNCHANGED <<uid, hostUid>>

\* The host stops the process with a signal.  The script installs no
\* handler, has no try/finally and registers nothing to run at exit.
Kill(r, sig) ==
    /\ Live(r)
    /\ pc' = [pc EXCEPT ![r] = "killed"]
    /\ exitCode' = [exitCode EXCEPT ![r] = 128 + sig]
    /\ UNCHANGED <<uid, hostUid, trace>>

\* The value the host would report to a later os.getuid() changes.
HostUidChange(r, u) ==
    /\ Live(r)
    /\ u # hostUid[r]
    /\ hostUid' = [hostUid EXCEPT ![r] = u]
    /\ UNCHANGED <<pc, uid, trace, exitCode>>

Next ==
    \/ \E r \in Runs : Step(r)
    \/ \E r \in Runs, sig \in Signals : Kill(r, sig)
    \/ \E r \in Runs, u \in UIDs : HostUidChange(r, u)

Spec == Init /\ [][Next]_vars

\* One run on its own, for the properties of a single run that depend on
\* the script being scheduled: the other run is never started.
Solo == "a"

SoloNext ==
    \/ Step(Solo)
    \/ \E sig \in Signals : Kill(Solo, sig)
    \/ \E u \in UIDs : HostUidChange(Solo, u)

\* The script's own steps are taken whenever they stay possible: the
\* interpreter keeps running and every sleep returns.  The host's actions
\* (a signal, a change of the reported UID) are under no such obligation.
FairSpec == Init /\ [][SoloNext]_vars /\ WF_vars(Step(Solo))

(* ===================================================================== *)
(*                              Properties                               *)
(* ===================================================================== *)

(* The literal texts of the specification, and the reading of a line.     *)

HelloPrefix == "Hello from Universal App! My container is running as UID: "

UsageHint == "I will print this message every 10 seconds. Use Ctrl+C to exit."

BeatPrefix == "Still running as UID: "

BeatSuffix == "..."

IsDigitChar(c) == \E d \in 1..10 : Digit[d] = c

\* s is the decimal numeral of a natural number: digits only, at least
\* one, and no leading zero unless it is "0" itself.
IsDecimalNumeral(s) ==
    /\ Len(s) >= 1
    /\ \A i \in 1..Len(s) : IsDigitChar(SubSeq(s, i, i))
    /\ Len(s) > 1 => SubSeq(s, 1, 1) # "0"

\* The number a decimal numeral denotes.
RECURSIVE NumeralValue(_)
NumeralValue(s) ==
    IF Len(s) = 0 THEN 0
    ELSE LET last == SubSeq(s, Len(s), Len(s))
             d == CHOOSE k \in 0..9 : Digit[k + 1] = last
         IN  10 * NumeralValue(SubSeq(s, 1, Len(s) - 1)) + d

\* The {U} part of a Hello line and of a heartbeat line.
HelloArg(s) == SubSeq(s, Len(HelloPrefix) + 1, Len(s))

BeatArg(s) == SubSeq(s, Len(BeatPrefix) + 1, Len(s) - Len(BeatSuffix))

IsHelloText(s) == HasPrefix(s, HelloPrefix)

IsBeatText(s) == HasPrefix(s, BeatPrefix) /\ HasSuffix(s, BeatSuffix)

\* Run r has read its UID; the value os.getuid() returned to it.
HasRead(r) == Len(trace[r]) >= 1 /\ trace[r][1].op = "getuid"

ReadUid(r) == trace[r][1].ret

\* Number of os.getuid() calls run r has made.
Reads(r) ==
    Cardinality({i \in 1..Len(trace[r]) : trace[r][i].op = "getuid"})

(* ------------------------------- C1 ----------------------------------- *)

\* C1: the standard output of a run is at every point a prefix of: the
\* Hello line, the usage hint, then heartbeat lines only.  So the Hello
\* line is line 1 and nowhere else, the usage hint is line 2 and nowhere
\* else, and every line from the third on is a heartbeat line.
C1_StartupLinesOnceThenHeartbeats ==
    \A r \in Runs :
        LET out == Stdout(r)
        IN  \A i \in 1..Len(out) :
                /\ IsHelloText(out[i]) <=> i = 1
                /\ out[i] = UsageHint <=> i = 2
                /\ IsBeatText(out[i]) <=> i >= 3

\* A run that has printed both startup lines and more than one heartbeat.
C1_Witness == \E r \in Runs : Len(Stdout(r)) >= 4 /\ Beats(r) >= 2

(* ------------------------------- C3 ----------------------------------- *)

\* C3: os.getuid() is called at most once in a run; the variable uid holds
\* the value that call returned and never changes afterwards; every
\* heartbeat line is "Still running as UID: {U}..." with U the decimal
\* numeral of that value, the same U the Hello line carries, whatever the
\* host would report by then.
C3_HeartbeatsCarryStartupUid ==
    /\ [](\A r \in Runs :
            /\ Reads(r) <= 1
            /\ uid[r] # NoUid => HasRead(r) /\ uid[r] = ReadUid(r)
            /\ \A i \in 1..Len(trace[r]) :
                 IsHeartbeat(trace[r][i]) =>
                    /\ HasRead(r)
                    /\ IsDecimalNumeral(BeatArg(trace[r][i].text))
                    /\ NumeralValue(BeatArg(trace[r][i].text)) = ReadUid(r)
                    /\ BeatArg(trace[r][i].text) = HelloArg(Stdout(r)[1]))
    /\ [][\A r \in Runs : uid[r] # NoUid => uid'[r] = uid[r]]_vars

\* A run that has just printed its second or later heartbeat while the
\* host reports another UID than the one read at startup.
C3_Witness ==
    \E r \in Runs :
        /\ Beats(r) >= 2
        /\ pc[r] = "sleep"
        /\ hostUid[r] # uid[r]

(* ------------------------------- C4 ----------------------------------- *)

\* C4: the value os.getuid() returns is the one the host reports at that
\* moment, and the first line of standard output is the Hello text
\* followed by exactly the decimal numeral of that value.
C4_FirstLineReportsUid ==
    /\ [](\A r \in Runs :
            Len(Stdout(r)) >= 1 =>
                /\ HasRead(r)
                /\ IsHelloText(Stdout(r)[1])
                /\ IsDecimalNumeral(HelloArg(Stdout(r)[1]))
                /\ NumeralValue(HelloArg(Stdout(r)[1])) = ReadUid(r))
    /\ [][\A r \in Runs :
            pc[r] = "getuid" /\ pc'[r] = "hello" =>
                HasRead(r)' /\ ReadUid(r)' = hostUid[r]]_vars

\* Two runs have printed their Hello lines, one for UID 0 and one for a
\* UID of several digits.
C4_Witness ==
    \E r, q \in Runs :
        /\ Len(Stdout(r)) >= 1 /\ ReadUid(r) = 0
        /\ Len(Stdout(q)) >= 1 /\ ReadUid(q) >= 1000

(* ------------------------------- C2 ----------------------------------- *)

\* C2: a run that has read its UID and has not been stopped by the host is
\* alive (it has no exit status and is at a statement of the script), and
\* once it has printed n heartbeat lines it prints an (n+1)-th, unless the
\* host stops it first.  Checked for every n below MaxBeats, under
\* fairness of the script's own steps.
C2_LoopNeverTerminates ==
    /\ [](HasRead(Solo) /\ pc[Solo] # "killed" =>
            Live(Solo) /\ exitCode[Solo] = NoExit)
    /\ \A n \in 0..(MaxBeats - 1) :
          (HasRead(Solo) /\ Beats(Solo) = n)
              ~> (Beats(Solo) = n + 1 \/ pc[Solo] = "killed")

\* A run that is alive after as many heartbeats as the model allows.
C2_Witness == Beats(Solo) = MaxBeats /\ Live(Solo)

(* ------------------------------- C5 ----------------------------------- *)

\* C5: when os.getuid() cannot supply the identifier the run ends at once
\* with a non-zero exit status, having performed no operation and printed
\* nothing, and stays ended; no line is ever printed by a run that has not
\* read its UID; and a run that has read its UID never fails.
C5_FailFastOnIdentityUnavailable ==
    /\ [](\A r \in Runs :
            /\ pc[r] = "failed" =>
                 /\ exitCode[r] # 0
                 /\ exitCode[r] # NoExit
                 /\ trace[r] = <<>>
            /\ ~HasRead(r) => Stdout(r) = <<>>
            /\ HasRead(r) =>
                 pc[r] # "failed" /\ exitCode[r] # UncaughtExceptionExit)
    /\ [][\A r \in Runs :
            /\ pc[r] = "failed" =>
                 /\ pc'[r] = "failed"
                 /\ trace'[r] = trace[r]
                 /\ exitCode'[r] = exitCode[r]
            /\ pc[r] # "failed" /\ pc'[r] = "failed" => pc[r] = "getuid"]_vars

\* One run failed at startup while the other reads its UID and goes on.
C5_Witness ==
    \E r, q \in Runs : pc[r] = "failed" /\ HasRead(q) /\ Beats(q) >= 1

(* ------------------------------- C6 ----------------------------------- *)

\* Seconds run r has spent suspended before its i-th operation.
RECURSIVE ElapsedBefore(_, _)
ElapsedBefore(r, i) ==
    IF i <= 1 THEN 0
    ELSE ElapsedBefore(r, i - 1)
           + (IF trace[r][i - 1].op = "sleep" THEN trace[r][i - 1].secs ELSE 0)

\* Heartbeats i < j of run r with no heartbeat between them.
ConsecutiveBeats(r, i, j) ==
    /\ i < j
    /\ IsHeartbeat(trace[r][i])
    /\ IsHeartbeat(trace[r][j])
    /\ \A k \in (i + 1)..(j - 1) : ~IsHeartbeat(trace[r][k])

\* C6: between two consecutive heartbeat lines the run performs exactly
\* one operation, a suspension of 10 seconds, so the second heartbeat
\* starts 10 seconds of suspension after the first.
C6_TenSecondsBetweenHeartbeats ==
    \A r \in Runs :
        \A i, j \in 1..Len(trace[r]) :
            ConsecutiveBeats(r, i, j) =>
                /\ j = i + 2
                /\ trace[r][i + 1].op = "sleep"
                /\ trace[r][i + 1].secs = 10
                /\ ElapsedBefore(r, j) - ElapsedBefore(r, i) = 10

\* A run suspended for the second time or later.
C6_Witness == \E r \in Runs : Beats(r) >= 2 /\ pc[r] = "sleeping"

(* ------------------------------- C7 ----------------------------------- *)

\* C7: a run is always at a Starting or a Running statement unless the
\* host stopped it or its startup failed.  From Running its steps lead to
\* Running only (or to "killed", by the host); nothing leads back into
\* Starting; Starting is left for Running exactly when the two startup
\* lines have been printed; a run leaves the two states only by a signal
\* or by the startup failure; and in either state the script has a next
\* step (up to the model's bound on heartbeats).
C7_StartingThenRunningForever ==
    /\ [](\A r \in Runs :
            /\ pc[r] \in Starting \cup Running \cup {"failed", "killed"}
            /\ Live(r) /\ ~(pc[r] = "beat" /\ Beats(r) = MaxBeats) =>
                 ENABLED Step(r))
    /\ [][\A r \in Runs :
            /\ pc[r] \in Running => pc'[r] \in Running \cup {"killed"}
            /\ pc'[r] \in Starting => pc[r] \in Starting
            /\ pc[r] \in Starting /\ pc'[r] \in Running =>
                 /\ Len(Stdout(r)') = 2
                 /\ IsHelloText(Stdout(r)'[1])
                 /\ Stdout(r)'[2] = UsageHint
            /\ Live(r) /\ ~Live(r)' =>
                 \/ pc'[r] = "killed"
                 \/ pc[r] = "getuid" /\ pc'[r] = "failed"]_vars

\* A run back at the head of the loop after a full iteration.
C7_Witness == \E r \in Runs : pc[r] = "beat" /\ Beats(r) >= 1

(* ------------------------------- C8 ----------------------------------- *)

\* C8: every suspension directly follows the printing of a heartbeat line,
\* and the first heartbeat line directly follows the usage hint: nothing,
\* in particular no suspension, comes between them.
C8_EmitThenSleep ==
    \A r \in Runs :
        \A i \in 1..Len(trace[r]) :
            /\ trace[r][i].op = "sleep" =>
                 i > 1 /\ IsHeartbeat(trace[r][i - 1])
            /\ IsHeartbeat(trace[r][i])
                 /\ (\A k \in 1..(i - 1) : ~IsHeartbeat(trace[r][k])) =>
                 i > 1 /\ trace[r][i - 1] = PrintEvent(UsageHint)

\* A run in its first suspension.
C8_Witness == \E r \in Runs : Beats(r) = 1 /\ pc[r] = "sleeping"

(* ------------------------------- C9 ----------------------------------- *)

\* C9: the host can stop a run at every statement of the script; a run
\* that has read its UID ends in no other way; the step that stops it and
\* every later step perform no operation (no cleanup, no further line), so
\* what it has written stays as it was; it stays stopped.
C9_ExternalTerminationOnly ==
    /\ [](\A r \in Runs :
            /\ Live(r) => \A sig \in Signals : ENABLED Kill(r, sig)
            /\ HasRead(r) /\ ~Live(r) => pc[r] = "killed")
    /\ [][\A r \in Runs :
            /\ pc'[r] = "killed" => trace'[r] = trace[r] /\ uid'[r] = uid[r]
            /\ pc[r] = "killed" => pc'[r] = "killed"]_vars

\* One run stopped during startup, after the Hello line, and the other
\* stopped between printing a heartbeat and going to sleep.
C9_Witness ==
    \E r, q \in Runs :
        /\ pc[r] = "killed" /\ Len(Stdout(r)) = 1
        /\ pc[q] = "killed"
        /\ Len(trace[q]) >= 1
        /\ IsHeartbeat(trace[q][Len(trace[q])])

(* ------------------------------- C10 ---------------------------------- *)

\* s is an initial part of t.
IsPrefix(s, t) == Len(s) <= Len(t) /\ SubSeq(t, 1, Len(s)) = s

\* C10: two runs that read the same UID perform, step for step, the same
\* operations with the same arguments (the same lines, the same sleeps):
\* the record of one is an initial part of the record of the other,
\* whatever their hosts report later and however far each has got.
C10_OutputDeterminedByUid ==
    \A r, q \in Runs :
        HasRead(r) /\ HasRead(q) /\ ReadUid(r) = ReadUid(q) =>
            IsPrefix(trace[r], trace[q]) \/ IsPrefix(trace[q], trace[r])

\* Two runs that read the same UID, whose hosts report different UIDs by
\* now, at different iterations of the loop.
C10_Witness ==
    \E r, q \in Runs :
        /\ r # q
        /\ HasRead(r) /\ HasRead(q) /\ ReadUid(r) = ReadUid(q)
        /\ hostUid[r] # hostUid[q]
        /\ Beats(r) >= 2 /\ Beats(q) = 1

====
